---- MODULE Spec2Model ----
(***************************************************************************)
(* Portainer container notifier (api_poll_main_v4.py): the reconciler      *)
(* detect_changes / build_memory as operators, and the poll loop of main   *)
(* as a state machine.                                                     *)
(*                                                                         *)
(* A Python dict is modelled as a sequence of entries in insertion order   *)
(* with pairwise distinct keys; assigning to an existing key keeps the     *)
(* key's position and replaces its value.                                  *)
(***************************************************************************)
EXTENDS Integers, Sequences, FiniteSets, TLC

VARIABLES pc, old_memory, containers, changes, file, cycle, sent, saved, raised, failed,
          reconciles, api

vars == <<pc, old_memory, containers, changes, file, cycle, sent, saved, raised, failed,
          reconciles, api>>

(* ------------------------------ bounds --------------------------------- *)

\* previous entries + current observations of one reconcile input
MaxTotal == 3
\* current observations when previous is the flattening of current
MaxObs == 2
\* poll cycles explored by the loop
MaxCycles == 2
\* largest max_retries api_request is called with
MaxRetriesTried == 4

(* ------------------------------ values --------------------------------- *)

Ids == {"a", "b", "c"}
Names == {"x", "y"}
Statuses == {"running", "exited", "Running"}
Endpoints == {"e1", "e2"}

\* stands for a key that a dict lacks (".get" default applies)
Absent == "<absent>"

\* no call of api_request is being followed
ApiIdle == [pc |-> "idle", max_retries |-> 0, retries |-> 0, history |-> <<>>, slept |-> 0,
            result |-> "unset", raised |-> ""]

\* str.lower() on the status values of the model
Lower(s) == IF s = "Running" THEN "running" ELSE s

(* ---------------------------- dict helpers ----------------------------- *)

\* dict[key] = value on a dict of entries keyed by field "id"
DictSet(d, e) ==
    IF \E i \in 1..Len(d) : d[i].id = e.id
    THEN [i \in 1..Len(d) |-> IF d[i].id = e.id THEN e ELSE d[i]]
    ELSE Append(d, e)

HasId(d, cid) == \E i \in 1..Len(d) : d[i].id = cid

GetId(d, cid) == d[CHOOSE i \in 1..Len(d) : d[i].id = cid]

(* ------------------------------ reconciler ----------------------------- *)

\* the (endpoint, container) pairs of containers_by_endpoint.items() in iteration order
RECURSIVE Flatten(_)
Flatten(cbe) ==
    IF cbe = <<>> THEN <<>>
    ELSE [i \in 1..Len(cbe[1].cs) |->
            [id |-> cbe[1].cs[i].id, name |-> cbe[1].cs[i].name,
             status |-> cbe[1].cs[i].status, endpoint |-> cbe[1].ep]]
         \o Flatten(Tail(cbe))

RECURSIVE FoldDict(_, _)
FoldDict(d, es) ==
    IF es = <<>> THEN d ELSE FoldDict(DictSet(d, Head(es)), Tail(es))

\* keeps the first observation of an id instead of the last
RECURSIVE FoldDictKeepFirst(_, _)
FoldDictKeepFirst(d, es) ==
    IF es = <<>> THEN d
    ELSE FoldDictKeepFirst(IF HasId(d, Head(es).id) THEN d ELSE Append(d, Head(es)), Tail(es))

build_memory_keep_first(containers_by_endpoint) ==
    FoldDictKeepFirst(<<>>, Flatten(containers_by_endpoint))

build_memory(containers_by_endpoint) == FoldDict(<<>>, Flatten(containers_by_endpoint))

new_flat_of(new_containers) == FoldDict(<<>>, Flatten(new_containers))

\* indexes the previous ids without regard to their name
old_ids_any_name(old, name) == {old[i].id : i \in 1..Len(old)}

\* old_name_to_ids.get(name, set())
old_name_to_ids(old, name) == {old[i].id : i \in {j \in 1..Len(old) : old[j].name = name}}

\* changes.setdefault(ep, []).append(msg)
PrependChange(ch, ep, msg) ==
    IF \E i \in 1..Len(ch) : ch[i].ep = ep
    THEN [i \in 1..Len(ch) |->
            IF ch[i].ep = ep THEN [ep |-> ep, msgs |-> <<msg>> \o ch[i].msgs] ELSE ch[i]]
    ELSE Append(ch, [ep |-> ep, msgs |-> <<msg>>])

AppendChange(ch, ep, msg) ==
    IF \E i \in 1..Len(ch) : ch[i].ep = ep
    THEN [i \in 1..Len(ch) |->
            IF ch[i].ep = ep THEN [ep |-> ep, msgs |-> Append(ch[i].msgs, msg)] ELSE ch[i]]
    ELSE Append(ch, [ep |-> ep, msgs |-> <<msg>>])

\* the rendered lines, kept as their fields: <<kind, name, id, ...>>
MsgNotRunning(c) == <<"NotRunning", c.name, c.id, c.status>>
MsgRestarted(name, cid, status) == <<"Restarted", name, cid, status>>
MsgNew(name, cid, status) == <<"New", name, cid, status>>
MsgChanged(name, cid, old_status, new_status) == <<"Changed", name, cid, old_status, new_status>>
MsgRemoved(name, cid) == <<"Removed", name, cid>>

\* compares the status as observed, without lower-casing it
IsNonRunningExact(c) == c.status # "running"

\* c.get("status", "").lower() != "running"
IsNonRunning(c) == Lower(c.status) # "running"

RECURSIVE NonRunningOf(_)
NonRunningOf(cs) ==
    IF cs = <<>> THEN <<>>
    ELSE (IF IsNonRunning(Head(cs)) THEN <<MsgNotRunning(Head(cs))>> ELSE <<>>)
         \o NonRunningOf(Tail(cs))

\* stores the list of every endpoint, empty or not
RECURSIVE FirstRunEveryEndpoint(_)
FirstRunEveryEndpoint(new_containers) ==
    IF new_containers = <<>> THEN <<>>
    ELSE <<[ep |-> new_containers[1].ep, msgs |-> NonRunningOf(new_containers[1].cs)]>>
         \o FirstRunEveryEndpoint(Tail(new_containers))

\* first run: report non-running containers
RECURSIVE FirstRun(_)
FirstRun(new_containers) ==
    IF new_containers = <<>> THEN <<>>
    ELSE LET non_running == NonRunningOf(new_containers[1].cs)
         IN  (IF non_running # <<>>
              THEN <<[ep |-> new_containers[1].ep, msgs |-> non_running]>>
              ELSE <<>>)
             \o FirstRun(Tail(new_containers))

\* pairs the new id with a single previous id instead of all of that name
SkipUpdateOne(skip, old_ids_for_name) ==
    skip \cup {CHOOSE cid \in old_ids_for_name : TRUE}

\* removed_ids_to_skip.update(old_ids_for_name)
SkipUpdate(skip, old_ids_for_name) == skip \cup old_ids_for_name

\* reports whenever the container is not running now
StatusNotRunningNow(old_status, new_status) == new_status # "running"

\* old_status != new_status
StatusDiffers(old_status, new_status) == old_status # new_status

\* the "new or restarted" loop: state is the changes and removed_ids_to_skip
RECURSIVE NewOrRestarted(_, _, _)
NewOrRestarted(old, new_flat, st) ==
    IF new_flat = <<>> THEN st
    ELSE LET container == Head(new_flat)
             cid == container.id
             name == container.name
             old_ids_for_name == old_name_to_ids(old, name)
             nxt ==
               IF ~HasId(old, cid)
               THEN IF old_ids_for_name # {}
                    THEN [changes |-> AppendChange(st.changes, container.endpoint,
                                        MsgRestarted(name, cid, container.status)),
                          skip |-> SkipUpdate(st.skip, old_ids_for_name)]
                    ELSE [changes |-> AppendChange(st.changes, container.endpoint,
                                        MsgNew(name, cid, container.status)),
                          skip |-> st.skip]
               ELSE LET old_status == GetId(old, cid).status
                        new_status == container.status
                    IN  IF StatusDiffers(old_status, new_status)
                        THEN [changes |-> AppendChange(st.changes, container.endpoint,
                                            MsgChanged(name, cid, old_status, new_status)),
                              skip |-> st.skip]
                        ELSE st
         IN  NewOrRestarted(old, Tail(new_flat), nxt)

\* old_data.get("endpoint", "unknown")
EndpointOr(old_data) == IF old_data.endpoint = Absent THEN "unknown" ELSE old_data.endpoint

\* drops every removal of a cycle that saw a restart
IsRemovedUnlessRestart(new_flat, skip, cid) == ~HasId(new_flat, cid) /\ skip = {}

\* cid not in new_flat and cid not in removed_ids_to_skip
IsRemoved(new_flat, skip, cid) == ~HasId(new_flat, cid) /\ cid \notin skip

\* the "removed" loop over old_memory.items()
RECURSIVE RemovedPass(_, _, _, _)
RemovedPass(rest, new_flat, skip, ch) ==
    IF rest = <<>> THEN ch
    ELSE LET old_data == Head(rest)
         IN  RemovedPass(Tail(rest), new_flat, skip,
                 IF IsRemoved(new_flat, skip, old_data.id)
                 THEN AppendChange(ch, EndpointOr(old_data), MsgRemoved(old_data.name, old_data.id))
                 ELSE ch)

detect_changes(old, new_containers) ==
    IF old = <<>>
    THEN FirstRun(new_containers)
    ELSE LET new_flat == new_flat_of(new_containers)
             st == NewOrRestarted(old, new_flat, [changes |-> <<>>, skip |-> {}])
         IN  RemovedPass(old, new_flat, st.skip, st.changes)

(* --------------------- inputs of the reconciler ------------------------ *)

\* what get_all_containers puts in a list: {"id", "name", "status"}
Observations == [id : Ids, name : Names, status : Statuses]

\* statuses of the steady-state inputs (the diff compares them for equality only)
DiffStatuses == {"running", "exited"}

DiffObservations == [id : Ids, name : Names, status : DiffStatuses]

DistinctIds(d) == \A i, j \in 1..Len(d) : d[i].id = d[j].id => i = j

\* the ids a previous snapshot of n entries holds: ids are opaque keys, so the
\* set is fixed up to renaming and every insertion order of it is drawn
OldIdSet(n) == IF n = 1 THEN {"a"} ELSE IF n = 2 THEN {"a", "b"} ELSE Ids

OldEntries(n) == [id : OldIdSet(n), name : Names, status : DiffStatuses, endpoint : Endpoints]

EndpointOrders == {<<"e1">>, <<"e2">>, <<"e1", "e2">>, <<"e2", "e1">>}

\* the dict with the endpoints of order eo, the first k observations of l under
\* the first endpoint and the rest under the second
GroupAs(eo, l, k) ==
    IF Len(eo) = 1
    THEN <<[ep |-> eo[1], cs |-> l]>>
    ELSE <<[ep |-> eo[1], cs |-> SubSeq(l, 1, k)], [ep |-> eo[2], cs |-> SubSeq(l, k + 1, Len(l))]>>

\* containers is a dict endpoint -> list holding m observations of O in all
IsGrouped(O, m) ==
    \E eo \in EndpointOrders, l \in [1..m -> O] :
        \E k \in (IF Len(eo) = 1 THEN {m} ELSE 0..m) :
            containers = GroupAs(eo, l, k)

(* ------------------- specification of one reconcile -------------------- *)

\* first run: a mapping against an empty previous snapshot
InitFirstRun ==
    /\ old_memory = <<>>
    /\ \E m \in 0..MaxObs : IsGrouped(Observations, m)

\* steady state: a non-empty previous snapshot against any mapping
InitDiff ==
    \E n \in 1..MaxTotal :
        /\ n <= Cardinality(Ids)
        /\ \E d \in [1..n -> OldEntries(n)] : DistinctIds(d) /\ old_memory = d
        /\ \/ containers = <<>>
           \/ \E m \in 0..(MaxTotal - n) : IsGrouped(DiffObservations, m)

\* two consecutive cycles observing the same containers
InitSame ==
    /\ \E m \in 0..MaxObs : IsGrouped(Observations, m)
    /\ old_memory = build_memory(containers)

InitDetect ==
    /\ pc = "call"
    /\ changes = <<>>
    /\ file = [kind |-> "missing", data |-> <<>>] /\ cycle = 0 /\ sent = <<>> /\ saved = "none"
    /\ raised = "" /\ failed = {}
    /\ reconciles = 0 /\ api = ApiIdle
    /\ (InitFirstRun \/ InitDiff \/ InitSame)

Reconcile ==
    /\ pc = "call"
    /\ changes' = detect_changes(old_memory, containers)
    /\ pc' = "returned"
    /\ UNCHANGED <<old_memory, containers, file, cycle, sent, saved, raised, failed, reconciles, api>>

NextDetect == Reconcile

SpecDetect == InitDetect /\ [][NextDetect]_vars

(* ----------------------- reading a reconcile result -------------------- *)

\* positions <<i, j>> of the messages of a result
AllPositions(ch) == UNION {{<<i, j>> : j \in 1..Len(ch[i].msgs)} : i \in 1..Len(ch)}

KindAt(ch, p) == ch[p[1]].msgs[p[2]][1]
IdAt(ch, p) == ch[p[1]].msgs[p[2]][3]
EpAt(ch, p) == ch[p[1]].ep

\* how many messages of the kind the result holds for the id, in all and under ep
CountOf(ch, kind, cid) ==
    Cardinality({p \in AllPositions(ch) : KindAt(ch, p) = kind /\ IdAt(ch, p) = cid})

CountUnder(ch, ep, kind, cid) ==
    Cardinality({p \in AllPositions(ch) :
                    EpAt(ch, p) = ep /\ KindAt(ch, p) = kind /\ IdAt(ch, p) = cid})

CountAny(ch, cid) == Cardinality({p \in AllPositions(ch) : IdAt(ch, p) = cid})

\* the observations of the current mapping, with their endpoint, in iteration order
CurObs == Flatten(containers)

CurIds == {CurObs[i].id : i \in 1..Len(CurObs)}

\* the observation that stands for an id observed more than once (the last one)
LastObs(cid) == CurObs[CHOOSE i \in 1..Len(CurObs) :
                    CurObs[i].id = cid /\ \A j \in (i + 1)..Len(CurObs) : CurObs[j].id # cid]

OldIds == {old_memory[i].id : i \in 1..Len(old_memory)}

OldOf(cid) == old_memory[CHOOSE i \in 1..Len(old_memory) : old_memory[i].id = cid]

OldIdsNamed(name) == {cid \in OldIds : OldOf(cid).name = name}

Diffed == pc = "returned" /\ old_memory # <<>>

(* ------------------------------- claims -------------------------------- *)

\* C1: restart collapse. In steady state, a current id B that is not in previous
\* and whose name is the name of one or more previous ids gets exactly one
\* Restarted message, under B's endpoint, and none of the previous ids of that
\* name (one or many) is reported Removed.
C1_RestartCollapse ==
    Diffed =>
        \A B \in CurIds \ OldIds :
            OldIdsNamed(LastObs(B).name) # {} =>
                /\ CountOf(changes, "Restarted", B) = 1
                /\ CountUnder(changes, LastObs(B).endpoint, "Restarted", B) = 1
                /\ \A A \in OldIdsNamed(LastObs(B).name) : CountOf(changes, "Removed", A) = 0

\* two previous ids of one name, both gone, and one new id of that name
C1_Witness ==
    /\ Diffed
    /\ \E B \in CurIds \ OldIds :
          /\ Cardinality(OldIdsNamed(LastObs(B).name) \ CurIds) = 2
          /\ CountOf(changes, "Restarted", B) = 1
    /\ Len(changes) = 1 /\ Len(changes[1].msgs) = 1
\* the list observed under an endpoint, and the messages reported under it
ObsUnder(ep) ==
    IF \E i \in 1..Len(containers) : containers[i].ep = ep
    THEN containers[CHOOSE i \in 1..Len(containers) : containers[i].ep = ep].cs
    ELSE <<>>

MsgsUnder(ch, ep) ==
    IF \E i \in 1..Len(ch) : ch[i].ep = ep
    THEN ch[CHOOSE i \in 1..Len(ch) : ch[i].ep = ep].msgs
    ELSE <<>>

Occurrences(seq, x) == Cardinality({i \in 1..Len(seq) : seq[i] = x})

FirstRun_Returned == pc = "returned" /\ old_memory = <<>> /\ containers # <<>>

\* the result is one NotRunning message per observation that NotRun selects,
\* under the observation's endpoint, and nothing else
ReportsExactly(NotRun(_)) ==
    /\ \A i \in 1..Len(changes) : \E j \in 1..Len(containers) : containers[j].ep = changes[i].ep
    /\ \A ep \in Endpoints :
          /\ \A c \in Observations :
                Occurrences(MsgsUnder(changes, ep), <<"NotRunning", c.name, c.id, c.status>>)
                  = IF NotRun(c.status) THEN Occurrences(ObsUnder(ep), c) ELSE 0
          /\ Len(MsgsUnder(changes, ep))
                = Cardinality({i \in 1..Len(ObsUnder(ep)) : NotRun(ObsUnder(ep)[i].status)})

\* C2 as stated: bootstrap reports exactly one NotRunning message per observation
\* whose status is not the string "running", under its endpoint, and nothing else.
C2_BootstrapExactStatus ==
    FirstRun_Returned => ReportsExactly(LAMBDA st : st # "running")

\* C2 amended: bootstrap reports exactly one NotRunning message per observation
\* whose lower-cased status is not "running", under its endpoint, and nothing else.
C2_Bootstrap ==
    FirstRun_Returned => ReportsExactly(LAMBDA st : st \notin {"running", "Running"})

\* an endpoint with an exited and a "Running" container: one message
C2_Witness ==
    /\ FirstRun_Returned
    /\ \E ep \in Endpoints :
          /\ \E i, j \in 1..Len(ObsUnder(ep)) :
                ObsUnder(ep)[i].status = "exited" /\ ObsUnder(ep)[j].status = "Running"
          /\ Len(MsgsUnder(changes, ep)) = 1

\* C3: idempotence. Reconciling a mapping against its own flattening
\* (previous = build_memory(current)) yields the empty result.
C3_Idempotence ==
    (pc = "returned" /\ old_memory = build_memory(containers)) => changes = <<>>

\* an id observed under both endpoints with two statuses, reconciled against
\* its own flattening
C3_Witness ==
    /\ pc = "returned" /\ old_memory = build_memory(containers)
    /\ Len(containers) = 2 /\ Len(old_memory) = 1 /\ Len(CurObs) = 2
    /\ CurObs[1].status # CurObs[2].status
    /\ changes = <<>>

\* C4: pure removal. In steady state a previous id that is absent from current
\* and whose name no current observation carries gets exactly one Removed
\* message, under the endpoint the previous snapshot stores for it.
C4_PureRemoval ==
    Diffed =>
        \A C \in OldIds \ CurIds :
            (\A i \in 1..Len(CurObs) : CurObs[i].name # OldOf(C).name) =>
                /\ CountOf(changes, "Removed", C) = 1
                /\ CountUnder(changes, OldOf(C).endpoint, "Removed", C) = 1

\* a removal under an endpoint that the current mapping does not hold, in a
\* reconcile that also saw a restart
C4_Witness ==
    /\ Diffed
    /\ \E C \in OldIds \ CurIds :
          /\ \A i \in 1..Len(CurObs) : CurObs[i].name # OldOf(C).name
          /\ \A j \in 1..Len(containers) : containers[j].ep # OldOf(C).endpoint
          /\ CountUnder(changes, OldOf(C).endpoint, "Removed", C) = 1
    /\ \E B \in CurIds : CountOf(changes, "Restarted", B) = 1

\* C5: status change. An id in both previous and current gets exactly one
\* Changed message carrying the previous and the current status when they
\* differ, no message at all when they are equal, and never a New, Restarted
\* or Removed message.
C5_StatusChange ==
    Diffed =>
        \A D \in OldIds \cap CurIds :
            /\ CountOf(changes, "New", D) = 0
            /\ CountOf(changes, "Restarted", D) = 0
            /\ CountOf(changes, "Removed", D) = 0
            /\ IF OldOf(D).status # LastObs(D).status
               THEN /\ CountOf(changes, "Changed", D) = 1
                    /\ Occurrences(MsgsUnder(changes, LastObs(D).endpoint),
                          <<"Changed", LastObs(D).name, D, OldOf(D).status, LastObs(D).status>>) = 1
               ELSE CountAny(changes, D) = 0

\* one id goes from running to exited while another previous id is removed
C5_Witness ==
    /\ Diffed
    /\ \E D \in OldIds \cap CurIds :
          /\ OldOf(D).status = "running" /\ LastObs(D).status = "exited"
          /\ CountOf(changes, "Changed", D) = 1
          /\ CountAny(changes, D) = 1
    /\ \E C \in OldIds \ CurIds : CountOf(changes, "Removed", C) = 1

\* C6: new unrelated container. In steady state a current id that is not in
\* previous and whose name no previous id has gets exactly one New message,
\* under its endpoint, and no Restarted message.
C6_NewUnrelated ==
    Diffed =>
        \A B \in CurIds \ OldIds :
            OldIdsNamed(LastObs(B).name) = {} =>
                /\ CountOf(changes, "New", B) = 1
                /\ CountUnder(changes, LastObs(B).endpoint, "New", B) = 1
                /\ CountOf(changes, "Restarted", B) = 0

\* a new id of a fresh name beside a previous container that is still there
C6_Witness ==
    /\ Diffed
    /\ \E B \in CurIds \ OldIds :
          /\ OldIdsNamed(LastObs(B).name) = {}
          /\ CountOf(changes, "New", B) = 1
    /\ OldIds \cap CurIds # {}

\* C7: no cross-contamination between endpoints. A new id on one endpoint whose
\* name only previous containers of other endpoints have is not reported
\* Restarted, and it does not suppress the Removed message of those containers
\* (those that are gone and that no new id of their own endpoint replaces).
C7_NoCrossContamination ==
    Diffed =>
        \A B \in CurIds \ OldIds :
            (\A A \in OldIdsNamed(LastObs(B).name) : OldOf(A).endpoint # LastObs(B).endpoint) =>
                /\ CountOf(changes, "Restarted", B) = 0
                /\ \A A \in OldIdsNamed(LastObs(B).name) \ CurIds :
                      (\A N \in CurIds \ OldIds :
                          ~(LastObs(N).name = OldOf(A).name /\ LastObs(N).endpoint = OldOf(A).endpoint))
                      => CountOf(changes, "Removed", A) = 1
(* ------------------------- get_all_containers -------------------------- *)

\* a response of api_request: None, or the decoded body
NoneResponse == [none |-> TRUE, body |-> <<>>]
Body(b) == [none |-> FALSE, body |-> b]

\* api_request(...) or []
OrEmpty(resp) == IF resp.none THEN <<>> ELSE resp.body

\* "Id" values of the API: "a+" is an id longer than 12 characters that begins
\* with the 12 characters "a"
Take12(s) == IF s = "a+" THEN "a" ELSE s

\* str.lstrip("/") on the "Names" values of the API
Lstrip(s) == IF s = "/x" THEN "x" ELSE IF s = "/y" THEN "y" ELSE s

\* a container record of the API; Names.present = FALSE: the key is missing
RawContainer(id, present, names, state) ==
    [dict |-> TRUE, Id |-> id, Names |-> [present |-> present, list |-> names], State |-> state]

\* a list element that is not a JSON object
NotADict == [dict |-> FALSE, Id |-> Absent, Names |-> [present |-> FALSE, list |-> <<>>], State |-> Absent]

RawContainers ==
    { RawContainer("a+", TRUE, <<"/x">>, "running"),
      RawContainer("a", TRUE, <<"/x">>, "exited"),
      RawContainer("b", TRUE, <<"/x">>, "exited"),
      RawContainer(Absent, FALSE, <<>>, Absent),
      RawContainer("b", TRUE, <<>>, "running"),
      NotADict }

\* the exception the list comprehension raises on a record, "" if none:
\* c.get on a non-dict, [0] on an empty "Names"
RecordRaises(c) ==
    IF ~c.dict THEN "AttributeError"
    ELSE IF c.Names.present /\ c.Names.list = <<>> THEN "IndexError"
    ELSE ""

\* {"id": c.get("Id", "")[:12], "name": c.get("Names", [""])[0].lstrip("/"),
\*  "status": c.get("State", "unknown")}
Observe(c) ==
    [id |-> Take12(IF c.Id = Absent THEN "" ELSE c.Id),
     name |-> Lstrip((IF c.Names.present THEN c.Names.list ELSE <<"">>)[1]),
     status |-> IF c.State = Absent THEN "unknown" ELSE c.State]

\* an endpoint record of the API, and a list element that is not a JSON object
RawEndpoint(id, name) == [dict |-> TRUE, Id |-> id, Name |-> name]
NotAnEndpoint == [dict |-> FALSE, Id |-> Absent, Name |-> Absent]

\* f"endpoint-{ep.get('Id', 'unknown')}"
EndpointLabel(id) ==
    CASE id = Absent -> "endpoint-unknown"
      [] id = "1" -> "endpoint-1"
      [] id = "2" -> "endpoint-2"
      [] OTHER -> "endpoint-3"

\* ep.get("Name", f"endpoint-{ep.get('Id', 'unknown')}")
EndpointName(ep) == IF ep.Name = Absent THEN EndpointLabel(ep.Id) ELSE ep.Name

EndpointResponses ==
    { NoneResponse,
      Body(<<>>),
      Body(<<RawEndpoint("1", "e1")>>),
      Body(<<RawEndpoint("1", "e1"), RawEndpoint("2", "e2")>>),
      Body(<<NotAnEndpoint, RawEndpoint("2", "e2")>>),
      Body(<<RawEndpoint("3", Absent)>>) }

ContainerResponses ==
    {NoneResponse, Body(<<>>)} \cup {Body(<<c>>) : c \in RawContainers}

\* containers_by_endpoint[ep_name] = [...]
SetEndpoint(cbe, ep_name, cs) ==
    IF \E i \in 1..Len(cbe) : cbe[i].ep = ep_name
    THEN [i \in 1..Len(cbe) |-> IF cbe[i].ep = ep_name THEN [ep |-> ep_name, cs |-> cs] ELSE cbe[i]]
    ELSE Append(cbe, [ep |-> ep_name, cs |-> cs])

\* the loop over the endpoints from position i on; resp[i] is what api_request
\* returns for the i-th endpoint. The result: the exception raised ("" if
\* none), the mapping built, and the endpoints whose fetch returned None.
RECURSIVE EndpointLoop(_, _, _, _)
EndpointLoop(endpoints, resp, i, acc) ==
    IF i > Len(endpoints) THEN acc
    ELSE LET ep == endpoints[i]
             containers_data == OrEmpty(resp[i])
             bad == {j \in 1..Len(containers_data) : RecordRaises(containers_data[j]) # ""}
         IN  IF ~ep.dict THEN EndpointLoop(endpoints, resp, i + 1, acc)
             ELSE IF bad # {}
             THEN [acc EXCEPT !.raises =
                      RecordRaises(containers_data[CHOOSE j \in bad : \A k \in bad : j <= k])]
             ELSE EndpointLoop(endpoints, resp, i + 1,
                      [raises |-> "",
                       value |-> SetEndpoint(acc.value, EndpointName(ep),
                                    [j \in 1..Len(containers_data) |-> Observe(containers_data[j])]),
                       failed |-> IF resp[i].none THEN acc.failed \cup {EndpointName(ep)}
                                  ELSE acc.failed \ {EndpointName(ep)}])

get_all_containers(endpoints_resp, resp) ==
    EndpointLoop(OrEmpty(endpoints_resp), resp, 1, [raises |-> "", value |-> <<>>, failed |-> {}])

(* ------------------------------ the store ------------------------------ *)

MissingFile == [kind |-> "missing", data |-> <<>>]
\* text that json.load cannot decode (truncated, empty, not JSON)
BadJsonFile == [kind |-> "badjson", data |-> <<>>]
\* bytes that are not UTF-8
BadBytesFile == [kind |-> "badbytes", data |-> <<>>]
SnapshotFile(memory) == [kind |-> "snapshot", data |-> memory]

\* the files the process may find when it starts
StartFiles ==
    { MissingFile, BadJsonFile, BadBytesFile,
      SnapshotFile(<<[id |-> "a", name |-> "x", status |-> "running", endpoint |-> "e1"]>>),
      SnapshotFile(<<[id |-> "b", name |-> "y", status |-> "exited", endpoint |-> Absent]>>) }

\* load_memory: the exception it raises ("" if none) and the value it returns
load_memory(f) ==
    CASE f.kind = "missing" -> [raises |-> "", value |-> <<>>]
      [] f.kind = "badjson" -> [raises |-> "", value |-> <<>>]
      [] f.kind = "badbytes" -> [raises |-> "UnicodeDecodeError", value |-> <<>>]
      [] OTHER -> [raises |-> "", value |-> f.data]

\* save_memory: the file after the call. The write succeeds, or open() fails
\* and leaves the file, or the write fails after open() truncated the file;
\* the IOError is caught in both cases.
SaveOutcomes == {"ok", "open_failed", "write_failed"}

save_memory(f, memory, outcome) ==
    CASE outcome = "ok" -> SnapshotFile(memory)
      [] outcome = "open_failed" -> f
      [] OTHER -> BadJsonFile

(* ------------------------------ main loop ------------------------------ *)

Init ==
    /\ pc = "start"
    /\ old_memory = <<>>
    /\ containers = <<>>
    /\ changes = <<>>
    /\ file \in StartFiles
    /\ cycle = 0
    /\ sent = <<>>
    /\ saved = "none"
    /\ raised = ""
    /\ failed = {}
    /\ reconciles = 0
    /\ api = ApiIdle

\* if not all([DISCORD_WEBHOOK, PORTAINER_API_URL, PORTAINER_API_KEY]): raise
CheckConfig ==
    /\ pc = "start"
    /\ \E complete \in BOOLEAN :
          IF complete
          THEN pc' = "load" /\ raised' = raised
          ELSE pc' = "exited" /\ raised' = "ValueError"
    /\ UNCHANGED <<old_memory, containers, changes, file, cycle, sent, saved, failed, reconciles, api>>

\* old_memory = load_memory()
Load ==
    /\ pc = "load"
    /\ LET r == load_memory(file)
       IN  IF r.raises # ""
           THEN pc' = "crashed" /\ raised' = r.raises /\ UNCHANGED <<old_memory, cycle>>
           ELSE pc' = "fetch" /\ old_memory' = r.value /\ cycle' = 1 /\ raised' = raised
    /\ UNCHANGED <<containers, changes, file, sent, saved, failed, reconciles, api>>

\* containers = get_all_containers(headers)
Fetch ==
    /\ pc = "fetch"
    /\ \E endpoints_resp \in EndpointResponses :
          \E resp \in [1..Len(OrEmpty(endpoints_resp)) -> ContainerResponses] :
              LET r == get_all_containers(endpoints_resp, resp)
              IN  IF r.raises # ""
                  THEN pc' = "crashed" /\ raised' = r.raises /\ UNCHANGED <<containers, failed>>
                  ELSE pc' = "fetched" /\ containers' = r.value /\ failed' = r.failed
                       /\ raised' = raised
    /\ UNCHANGED <<old_memory, changes, file, cycle, sent, saved, reconciles, api>>

\* if containers: changes = detect_changes(old_memory, containers)
Detect ==
    /\ pc = "fetched"
    /\ containers # <<>>
    /\ changes' = detect_changes(old_memory, containers)
    /\ pc' = "notify"
    /\ UNCHANGED <<old_memory, containers, file, cycle, sent, saved, raised, failed, api>>
    /\ reconciles' = reconciles + 1

\* runs the persist step without the "if containers" test
NoDataPersists ==
    /\ pc = "fetched"
    /\ containers = <<>>
    /\ old_memory' = build_memory(containers)
    /\ pc' = "sleep"
    /\ UNCHANGED <<containers, changes, file, cycle, sent, saved, raised, failed, reconciles, api>>

\* else: print("[WARN] No containers data fetched this cycle.")
NoData ==
    /\ pc = "fetched"
    /\ containers = <<>>
    /\ pc' = "sleep"
    /\ UNCHANGED <<old_memory, containers, changes, file, cycle, sent, saved, raised, failed, reconciles, api>>

\* lets a failed post end the cycle
SendOrAbort ==
    /\ pc = "notify"
    /\ Len(sent) < Len(changes)
    /\ \E delivered \in BOOLEAN :
          /\ sent' = Append(sent, [ep |-> changes[Len(sent) + 1].ep, ok |-> delivered])
          /\ pc' = IF delivered THEN pc ELSE "sleep"
    /\ UNCHANGED <<old_memory, containers, changes, file, cycle, saved, raised, failed, reconciles, api>>

\* one iteration of "for ep_name, change_list in changes.items(): send_discord(...)";
\* the post succeeds or raises a RequestException, which send_discord catches
Send ==
    /\ pc = "notify"
    /\ Len(sent) < Len(changes)
    /\ \E delivered \in BOOLEAN :
          sent' = Append(sent, [ep |-> changes[Len(sent) + 1].ep, ok |-> delivered])
    /\ UNCHANGED <<pc, old_memory, containers, changes, file, cycle, saved, raised, failed, reconciles, api>>

\* adopts the new snapshot only when it was written
PersistIfSaved ==
    /\ pc = "notify"
    /\ Len(sent) = Len(changes)
    /\ \E outcome \in SaveOutcomes :
          /\ file' = save_memory(file, build_memory(containers), outcome)
          /\ saved' = outcome
          /\ old_memory' = IF outcome = "ok" THEN build_memory(containers) ELSE old_memory
    /\ pc' = "sleep"
    /\ UNCHANGED <<containers, changes, cycle, sent, raised, failed, reconciles, api>>

\* new_memory = build_memory(containers); save_memory(new_memory); old_memory = new_memory
Persist ==
    /\ pc = "notify"
    /\ Len(sent) = Len(changes)
    /\ LET new_memory == build_memory(containers)
       IN  /\ \E outcome \in SaveOutcomes :
                 /\ file' = save_memory(file, new_memory, outcome)
                 /\ saved' = outcome
           /\ old_memory' = new_memory
    /\ pc' = "sleep"
    /\ UNCHANGED <<containers, changes, cycle, sent, raised, failed, reconciles, api>>

\* time.sleep(POLL_INTERVAL), then the next iteration; the locals of the
\* iteration are dead from here on
Sleep ==
    /\ pc = "sleep"
    /\ cycle < MaxCycles
    /\ pc' = "fetch"
    /\ cycle' = cycle + 1
    /\ containers' = <<>> /\ changes' = <<>> /\ sent' = <<>> /\ saved' = "none" /\ failed' = {}
    /\ UNCHANGED <<old_memory, file, raised, reconciles, api>>

Next == CheckConfig \/ Load \/ Fetch \/ Detect \/ NoData \/ Send \/ Persist \/ Sleep

Spec == Init /\ [][Next]_vars
(* --------------------------- claims on the loop ------------------------ *)

\* C8: no error crashes the running loop. Once main has entered its loop
\* (cycle >= 1) no exception escapes, whatever the fetch returns (malformed
\* endpoint or container records included), whether or not a delivery or the
\* write of the snapshot file fails.
C8_LoopNeverCrashes == pc = "crashed" => cycle = 0

\* C9: an endpoint whose container fetch failed (api_request returned None) is
\* not a key of the mapping get_all_containers returns.
C9_FailedEndpointOmitted ==
    pc = "fetched" =>
        \A ep \in failed : \A i \in 1..Len(containers) : containers[i].ep # ep

\* C10: a missing or corrupt snapshot file is an empty previous snapshot.
\* load_memory does not raise, and with such a file main enters its loop with
\* the empty snapshot, so that the first reconcile runs in first-run mode (the
\* file is the one found at start until the first write).
C10_CorruptFileIsEmptySnapshot ==
    /\ (pc = "crashed" /\ file.kind # "snapshot") => cycle >= 1
    /\ (cycle = 1 /\ pc \in {"fetch", "fetched", "notify"} /\ file.kind # "snapshot")
          => old_memory = <<>>
\* the observations of the cycle as entries of a snapshot, in iteration order
SeenIds == {Flatten(containers)[i].id : i \in 1..Len(Flatten(containers))}

\* old_memory holds exactly the ids observed in the cycle, each once, with the
\* name, status and endpoint of its last observation
HoldsObservations ==
    /\ {old_memory[i].id : i \in 1..Len(old_memory)} = SeenIds
    /\ Len(old_memory) = Cardinality(SeenIds)
    /\ \A i \in 1..Len(old_memory) : old_memory[i] = LastObs(old_memory[i].id)

\* C11: after every cycle that produced container data the in-memory snapshot
\* is the flattening of that cycle's observations, whether or not a delivery
\* failed and whether or not the write of the snapshot file failed.
C11_SnapshotAdvances ==
    (pc = "sleep" /\ containers # <<>>) => HoldsObservations

\* a cycle with a failed delivery and a failed write that observed a container
C11_Witness ==
    /\ pc = "sleep" /\ containers # <<>>
    /\ \E i \in 1..Len(sent) : ~sent[i].ok
    /\ saved = "write_failed"
    /\ file.kind = "badjson"
    /\ old_memory # <<>>
    /\ HoldsObservations
\* C12: the snapshot held by the loop changes only by wholesale replacement.
\* After the load, old_memory changes only in the step that follows the last
\* delivery attempt of a cycle that produced container data (the reconcile and
\* the deliveries leave it unchanged), and a cycle that produced no container
\* data ends with the snapshot and the file unchanged and nothing sent.
C12_SnapshotFrame ==
    [][ /\ (old_memory' # old_memory) =>
              \/ pc = "load"
              \/ /\ pc = "notify" /\ pc' = "sleep"
                 /\ containers # <<>>
                 /\ Len(sent) = Len(changes)
        /\ (pc' = "notify") => old_memory' = old_memory
        /\ (pc' = "sleep" /\ containers' = <<>>) =>
              /\ old_memory' = old_memory
              /\ file' = file
              /\ sent' = <<>>
              /\ saved' = "none"
      ]_vars

\* a cycle without container data that follows a cycle with a reconcile, the
\* snapshot still holding a container
C12_Witness ==
    /\ pc = "sleep" /\ containers = <<>>
    /\ cycle = 2 /\ reconciles = 1
    /\ old_memory # <<>>
\* C13: notification failures are isolated. The deliveries attempted in a cycle
\* are one per endpoint of the reconcile result, in its order and never twice
\* for an endpoint (no retry); at the end of a cycle that produced container
\* data every endpoint of the result had its attempt, whatever the outcome of
\* the others, and the persist step ran.
C13_DeliveriesIsolated ==
    /\ (pc \in {"notify", "sleep"}) =>
          /\ Len(sent) <= Len(changes)
          /\ \A i \in 1..Len(sent) : sent[i].ep = changes[i].ep
          /\ \A i, j \in 1..Len(sent) : sent[i].ep = sent[j].ep => i = j
    /\ (pc = "sleep" /\ containers # <<>>) =>
          /\ Len(sent) = Len(changes)
          /\ saved # "none"

\* events for two endpoints: the first delivery fails, the second is made and
\* the snapshot is written
C13_Witness ==
    /\ pc = "sleep"
    /\ Len(changes) = 2 /\ Len(sent) = 2
    /\ ~sent[1].ok /\ sent[2].ok
    /\ saved = "ok"
(* ----------------------------- api_request ----------------------------- *)

\* def api_request(url, headers, max_retries=3)
DefaultMaxRetries == 3

\* time.sleep(10)
BackoffSeconds == 10

\* what one requests.get can end in: a 2xx response with a JSON body, a 502
\* response, a RequestException (connection error, timeout, or the HTTPError
\* of raise_for_status on another error status), a 2xx response whose body is
\* not JSON
AttemptOutcomes == {"ok", "502", "error", "badjson"}

\* treats a 502 like any other error status
ShortCircuitsNever(outcome) == FALSE

\* if resp.status_code == 502
ShortCircuits(outcome) == outcome = "502"

\* gives up one failure late
GivesUpLate(retries, max_retries) == retries > max_retries

\* if retries >= max_retries
GivesUp(retries, max_retries) == retries >= max_retries

InitApi ==
    /\ pc = "api"
    /\ old_memory = <<>> /\ containers = <<>> /\ changes = <<>>
    /\ file = [kind |-> "missing", data |-> <<>>] /\ cycle = 0 /\ sent = <<>> /\ saved = "none"
    /\ raised = "" /\ failed = {} /\ reconciles = 0
    /\ \E m \in 0..MaxRetriesTried :
          api = [pc |-> "loop", max_retries |-> m, retries |-> 0, history |-> <<>>, slept |-> 0,
                 result |-> "unset", raised |-> ""]

\* the except branch: retries += 1, then return None or go to the sleep
AfterFailure(a, outcome) ==
    IF GivesUp(a.retries + 1, a.max_retries)
    THEN [a EXCEPT !.history = Append(a.history, outcome), !.retries = a.retries + 1,
                   !.result = "None", !.pc = "returned"]
    ELSE [a EXCEPT !.history = Append(a.history, outcome), !.retries = a.retries + 1,
                   !.pc = "waiting"]

\* one pass of the try block. resp.json() on a body that is not JSON raises an
\* exception that the installed requests either derives from RequestException
\* (caught, counted as a failure) or from ValueError only (it escapes).
ApiAttempt ==
    /\ api.pc = "loop"
    /\ api.retries < api.max_retries
    /\ \E outcome \in AttemptOutcomes, caught \in BOOLEAN :
          api' = IF ShortCircuits(outcome)
                 THEN [api EXCEPT !.history = Append(api.history, outcome),
                                  !.result = "None", !.pc = "returned"]
                 ELSE IF outcome = "ok"
                 THEN [api EXCEPT !.history = Append(api.history, outcome),
                                  !.result = "body", !.pc = "returned"]
                 ELSE IF outcome = "badjson" /\ ~caught
                 THEN [api EXCEPT !.history = Append(api.history, outcome),
                                  !.raised = "ValueError", !.pc = "raised"]
                 ELSE AfterFailure(api, outcome)
    /\ UNCHANGED <<pc, old_memory, containers, changes, file, cycle, sent, saved, raised, failed,
                   reconciles>>

\* time.sleep(10), then the while test again
ApiBackoff ==
    /\ api.pc = "waiting"
    /\ api' = [api EXCEPT !.slept = api.slept + BackoffSeconds, !.pc = "loop"]
    /\ UNCHANGED <<pc, old_memory, containers, changes, file, cycle, sent, saved, raised, failed,
                   reconciles>>

\* the while test fails: return None
ApiLoopExit ==
    /\ api.pc = "loop"
    /\ ~(api.retries < api.max_retries)
    /\ api' = [api EXCEPT !.result = "None", !.pc = "returned"]
    /\ UNCHANGED <<pc, old_memory, containers, changes, file, cycle, sent, saved, raised, failed,
                   reconciles>>

NextApi == ApiAttempt \/ ApiBackoff \/ ApiLoopExit

SpecApi == InitApi /\ [][NextApi]_vars

\* the attempts so far were transient failures, but for a success
OnlyTransient == \A i \in 1..Len(api.history) : api.history[i] \in {"error", "ok"}

WaitsBefore(n) == IF n = 0 THEN 0 ELSE BackoffSeconds * (n - 1)

\* C14: bounded retry. api_request makes at most max_retries HTTP attempts; on
\* transient failures it returns the body at the first successful attempt,
\* returns None without raising once max_retries attempts have failed, and has
\* slept the fixed backoff once between consecutive attempts only, not after
\* the last one.
C14_BoundedRetry ==
    /\ Len(api.history) <= api.max_retries
    /\ (api.pc = "waiting") => Len(api.history) < api.max_retries
    /\ (api.pc = "returned" /\ OnlyTransient) =>
          /\ api.raised = ""
          /\ IF \E i \in 1..Len(api.history) : api.history[i] = "ok"
             THEN /\ api.result = "body"
                  /\ \A i \in 1..Len(api.history) : api.history[i] = "ok" <=> i = Len(api.history)
             ELSE /\ api.result = "None"
                  /\ Len(api.history) = api.max_retries
          /\ api.slept = WaitsBefore(Len(api.history))

\* the default three attempts all fail: None after two sleeps
C14_Witness ==
    /\ api.pc = "returned"
    /\ api.max_retries = DefaultMaxRetries
    /\ api.history = <<"error", "error", "error">>
    /\ api.result = "None"
    /\ api.slept = 2 * BackoffSeconds

\* C15: gateway-unavailable short-circuit. An attempt that receives a 502 is
\* the last one: api_request returns None at once, without raising and without
\* a backoff sleep after it, however many retries remain.
C15_GatewayShortCircuit ==
    \A i \in 1..Len(api.history) :
        api.history[i] = "502" =>
            /\ i = Len(api.history)
            /\ api.pc = "returned"
            /\ api.result = "None"
            /\ api.raised = ""
            /\ api.slept = WaitsBefore(i)

\* a 502 on the second attempt, after a transient failure, with retries left
C15_Witness ==
    /\ api.pc = "returned"
    /\ api.max_retries = DefaultMaxRetries
    /\ api.history = <<"error", "502">>
    /\ api.result = "None"
    /\ api.slept = BackoffSeconds
\* C16: omission of empty endpoints. In first-run mode and in steady state
\* every key of the result of detect_changes has a non-empty list: an endpoint
\* that contributes no message is not a key.
C16_NoEmptyEndpoint ==
    pc = "returned" =>
        /\ \A i \in 1..Len(changes) : changes[i].msgs # <<>>
        /\ \A ep \in Endpoints : (MsgsUnder(changes, ep) = <<>>) =>
              \A i \in 1..Len(changes) : changes[i].ep # ep

\* a first run over two endpoints of which one has only running containers
\* and the other an exited one
C16_Witness ==
    /\ FirstRun_Returned
    /\ Len(containers) = 2
    /\ \E i \in 1..2 : /\ containers[i].cs # <<>>
                       /\ \A j \in 1..Len(containers[i].cs) : containers[i].cs[j].status = "running"
    /\ Len(changes) = 1
\* C17: restart inference consumes a previous id at most once per reconcile.
\* No previous id is the basis of more than one Restarted message: of the
\* current ids that are absent from previous and share its name, at most one
\* is reported Restarted.
C17_RestartConsumesOnce ==
    Diffed =>
        \A A \in OldIds :
            Cardinality({B \in CurIds \ OldIds :
                            /\ LastObs(B).name = OldOf(A).name
                            /\ CountOf(changes, "Restarted", B) >= 1}) <= 1

\* C18: a Restarted message is emitted for a current id only when it replaces
\* a container that is gone: the id is not in previous and at least one
\* previous id of the same name is absent from current.
C18_RestartedReplacesAbsent ==
    Diffed =>
        \A B \in CurIds :
            CountOf(changes, "Restarted", B) >= 1 =>
                /\ B \notin OldIds
                /\ \E A \in OldIdsNamed(LastObs(B).name) : A \notin CurIds

\* C19: first-run mode happens only in the first reconcile of a run. From the
\* second reconcile of the loop on, a container id that the snapshot does not
\* hold is reported New or Restarted, whatever the earlier cycles observed.
C19_FirstRunOnlyOnce ==
    (pc = "notify" /\ reconciles >= 2) =>
        \A B \in CurIds \ OldIds :
            CountOf(changes, "New", B) + CountOf(changes, "Restarted", B) = 1
\* position of an id in the iteration order of new_flat: a dict iterates in
\* the order its keys were first inserted
NewFlatIndex(cid) ==
    CHOOSE j \in 1..Len(CurObs) :
        /\ CurObs[j].id = cid
        /\ \A k \in 1..(j - 1) : CurObs[k].id # cid

\* position of an id in the iteration order of the previous snapshot
OldIndex(cid) == CHOOSE j \in 1..Len(old_memory) : old_memory[j].id = cid

\* C20: in steady state, within one endpoint's list, every New, Restarted and
\* Changed message precedes every Removed message; the New/Restarted/Changed
\* messages follow the iteration order of the flattened current observations
\* and the Removed messages follow the iteration order of the previous
\* snapshot, with no other reordering.
C20_OrderWithinEndpoint ==
    Diffed =>
        \A i \in 1..Len(changes) :
            LET m == changes[i].msgs IN
            \A p \in 1..Len(m) : \A q \in (p + 1)..Len(m) :
                /\ m[p][1] = "Removed" => m[q][1] = "Removed"
                /\ (m[p][1] # "Removed" /\ m[q][1] # "Removed") =>
                       NewFlatIndex(m[p][3]) < NewFlatIndex(m[q][3])
                /\ (m[p][1] = "Removed" /\ m[q][1] = "Removed") =>
                       OldIndex(m[p][3]) < OldIndex(m[q][3])

C20_Witness ==
    /\ Diffed
    /\ {"a", "b"} \subseteq OldIds
    /\ OldIndex("b") < OldIndex("a")
    /\ \E i \in 1..Len(changes) :
         LET m == changes[i].msgs IN
         /\ Len(m) = 3
         /\ m[1][1] # "Removed"
         /\ m[2] = MsgRemoved(OldOf("b").name, "b")
         /\ m[3] = MsgRemoved(OldOf("a").name, "a")
====
